---- MODULE Spec2Model ----
(***************************************************************************)
(* Model of the modular engine skeleton:                                   *)
(*   - the host, Application::Run (src/unnamed/part_000), which loads      *)
(*     GraphicsModule.dll, resolves CreateModule, drives the frame loop    *)
(*     and tears the module down;                                          *)
(*   - the backend, GraphicsModule (src/unnamed/part_001), with its        *)
(*     device/context pointers, the initialized flag and the global        *)
(*     texture table s_Textures.                                           *)
(*                                                                         *)
(* Specifications:                                                         *)
(*   Spec       Run exactly as written: `running` is never cleared, so     *)
(*              the frame loop has no exit and lines 44-50 are dead.       *)
(*   FairSpec   Spec with the progress of a sequential thread.             *)
(*   SpecQuit   Run plus the quit check that part_000:41 leaves to "the    *)
(*              real game"; it is the only way lines 44-50 execute.        *)
(*   SpecModule the exported ABI and the module's methods driven by an     *)
(*              arbitrary well-behaved client of the DLL.                  *)
(***************************************************************************)
EXTENDS Integers, Sequences, FiniteSets, TLC

\* Call counters saturate here (the frame loop itself is unbounded).
MaxCount == 4
\* Largest texture table the client specification builds.
MaxTextures == 2
\* Most native textures a client creates over the life of the process.
MaxCreated == 3

\* Texture edge lengths a client passes in a TextureDesc.
TexSizes == {1, 2}

\* Engine::Result, CommonTypes.h:134-143 (the values the module returns).
Result_Success == 0
Result_Failure == 1
Result_AlreadyInitialized == 6
\* Marker for "no Result returned" (void methods, or no call yet).
NoResult == -1

\* Methods of the module whose invocations are counted.
Methods == {"Initialize", "Clear", "DrawText", "Update", "Shutdown", "CreateTexture"}

\* Outcomes of the native D3D11CreateDevice call (part_001:82-86).  The
\* source neither pre-clears nor inspects the out-parameters, so a failing
\* call is modelled with both shapes a native API can leave behind:
\*   "ok"            S_OK, device and context written
\*   "fail"          failing HRESULT, out-parameters written as null
\*   "fail_partial"  failing HRESULT after the device pointer was written
DeviceOutcomes == {"ok", "fail", "fail_partial"}

\* Outcomes of ID3D11Device::CreateTexture2D (part_001:107).
TextureOutcomes == {"ok", "fail"}

\* What the file GraphicsModule.dll can be when Run starts.
DllKinds == {"absent", "no_create", "other_module", "graphics_no_destroy", "graphics"}

VARIABLES
    \* ---- host, Application (part_000) ----
    pc,             \* position in Run, or "client" when a client drives the DLL
    dll,            \* what GraphicsModule.dll is on this machine
    graphicsDLL,    \* Application::graphicsDLL: "unset" | "null" | "handle"
    libHeld,        \* the OS holds the library loaded for this process
    graphics,       \* Application::graphics: "unset" | "null" | "obj"
    running,        \* local `running` of Run
    initResult,     \* value returned by the host's Initialize call
    \* ---- module object and its globals (part_001) ----
    obj,            \* "none" | "other" | "alive" | "destroyed"
    m_Device,       \* "null" | "live"
    m_Context,      \* "null" | "live"
    m_Initialized,
    s_Textures,     \* sequence of TextureData
    \* ---- observation ----
    calls,          \* invocations per method, every caller counted
    d3dCalls,       \* D3D11CreateDevice invocations
    leaked,         \* a live native object lost its last pointer
    faulted,        \* a call went through a null pointer
    nextTex,        \* native textures created so far (the last one's identity)
    issued,         \* <<handle, native texture>> returned and not yet destroyed
    lastCall,       \* last operation applied to the module
    lastResult,     \* its return value (Result code or handle id)
    pre             \* module fields as they were before lastCall

hostVars == <<pc, dll, graphicsDLL, libHeld, graphics, running, initResult>>
modVars  == <<obj, m_Device, m_Context, m_Initialized, s_Textures,
              calls, d3dCalls, leaked, faulted, nextTex, issued,
              lastCall, lastResult, pre>>
vars == <<pc, dll, graphicsDLL, libHeld, graphics, running, initResult,
          obj, m_Device, m_Context, m_Initialized, s_Textures,
          calls, d3dCalls, leaked, faulted, nextTex, issued,
              lastCall, lastResult, pre>>

----------------------------------------------------------------------------
\* The module as a value: the operations below are functions on it.

World ==
    [m_Device |-> m_Device, m_Context |-> m_Context,
     m_Initialized |-> m_Initialized, s_Textures |-> s_Textures,
     calls |-> calls, d3dCalls |-> d3dCalls,
     leaked |-> leaked, faulted |-> faulted,
     nextTex |-> nextTex, issued |-> issued, ret |-> NoResult]

\* The fields a caller can observe changing across one call.
Fields(w) ==
    [m_Device |-> w.m_Device, m_Context |-> w.m_Context,
     m_Initialized |-> w.m_Initialized, s_Textures |-> w.s_Textures,
     d3dCalls |-> w.d3dCalls, nextTex |-> w.nextTex]

Sat(n) == IF n < MaxCount THEN n + 1 ELSE n

Count(w, m) == [w EXCEPT !.calls[m] = Sat(@)]

\* TextureHandle, CommonTypes.h:200-208.
TextureHandle_Default == 0
TextureHandle(id) == id
IsValid(h) == h # 0

\* GraphicsModule::GraphicsModule, part_001:57-59.
GraphicsModule_ctor(w) ==
    [w EXCEPT !.m_Device = "null", !.m_Context = "null", !.m_Initialized = FALSE]

\* D3D11CreateDevice(..., &m_Device, &featureLevel, &m_Context), part_001:82-86.
\* Overwriting a live pointer loses the object it pointed to.
D3D11CreateDevice(w, o) ==
    LET dev == IF o \in {"ok", "fail_partial"} THEN "live" ELSE "null"
        ctx == IF o = "ok" THEN "live" ELSE "null"
    IN  [w EXCEPT !.m_Device = dev, !.m_Context = ctx,
                  !.d3dCalls = Sat(@),
                  !.leaked = @ \/ w.m_Device = "live" \/ w.m_Context = "live",
                  !.ret = IF o = "ok" THEN 1 ELSE 0]

\* GraphicsModule::InitializeDirectX, part_001:79-90: return SUCCEEDED(hr).
InitializeDirectX(w, o) == D3D11CreateDevice(w, o)

\* Mutant: Initialize without the m_Initialized guard of lines 66-68.
Initialize_NoGuard(w0, o) ==
    LET w == Count(w0, "Initialize")
        d == InitializeDirectX(w, o)
    IN  IF d.ret = 0
        THEN [d EXCEPT !.ret = Result_Failure]
        ELSE [d EXCEPT !.m_Initialized = TRUE, !.ret = Result_Success]

\* GraphicsModule::Initialize, part_001:65-77.
Initialize(w0, o) ==
    LET w == Count(w0, "Initialize")
    IN  IF w.m_Initialized
        THEN [w EXCEPT !.ret = Result_AlreadyInitialized]
        ELSE LET d == InitializeDirectX(w, o)
             IN  IF d.ret = 0
                 THEN [d EXCEPT !.ret = Result_Failure]
                 ELSE [d EXCEPT !.m_Initialized = TRUE, !.ret = Result_Success]

\* ptr->Release(): a fault through a null pointer, otherwise the object dies.
Release(w, field) ==
    IF w[field] = "live"
    THEN [w EXCEPT ![field] = "null"]
    ELSE [w EXCEPT !.faulted = TRUE]

\* GraphicsModule::CleanupDirectX (declared part_001:20, body not in the
\* sources): release the context and the device.
CleanupDirectX(w) == Release(Release(w, "m_Context"), "m_Device")

\* GraphicsModule::Shutdown (declared part_001:30, body not in the sources).
\* From spec 4.3: releases the device/context and clears the resource table;
\* a no-op when the module is not initialized.
Shutdown(w0) ==
    LET w == [Count(w0, "Shutdown") EXCEPT !.ret = NoResult]
    IN  IF ~w.m_Initialized
        THEN w
        ELSE [CleanupDirectX(w) EXCEPT !.s_Textures = <<>>,
                                       !.issued = {},
                                       !.m_Initialized = FALSE]

\* Mutant: a destructor that releases the device itself instead of going
\* through Shutdown's guard.
GraphicsModule_dtor_Direct(w) == CleanupDirectX(Count(w, "Shutdown"))

\* GraphicsModule::~GraphicsModule, part_001:61-63.
GraphicsModule_dtor(w) == Shutdown(w)

\* DestroyModule, part_001:130-132: delete static_cast<GraphicsModule*>(module).
DestroyModule(w) == GraphicsModule_dtor(w)

\* Mutant: CreateTexture without the m_Initialized guard of line 93.
CreateTexture_NoGuard(w0, desc, o) ==
    LET w == Count(w0, "CreateTexture")
    IN  IF w.m_Device # "live"
        THEN [w EXCEPT !.faulted = TRUE, !.ret = TextureHandle_Default]
        ELSE IF o = "ok"
        THEN LET texture == w.nextTex + 1
                 data == [texture |-> texture,
                          width |-> desc.width, height |-> desc.height]
                 t == Append(w.s_Textures, data)
                 h == TextureHandle(Len(t))
             IN  [w EXCEPT !.s_Textures = t, !.nextTex = texture,
                           !.issued = @ \cup {<<h, texture>>},
                           !.ret = h]
        ELSE [w EXCEPT !.ret = TextureHandle_Default]

\* Mutant: the handle is the new entry's index instead of the table size.
CreateTexture_IndexHandle(w0, desc, o) ==
    LET w == Count(w0, "CreateTexture")
    IN  IF ~w.m_Initialized
        THEN [w EXCEPT !.ret = TextureHandle_Default]
        ELSE IF w.m_Device # "live"
        THEN [w EXCEPT !.faulted = TRUE, !.ret = TextureHandle_Default]
        ELSE IF o = "ok"
        THEN LET texture == w.nextTex + 1
                 data == [texture |-> texture,
                          width |-> desc.width, height |-> desc.height]
                 t == Append(w.s_Textures, data)
                 h == TextureHandle(Len(t) - 1)
             IN  [w EXCEPT !.s_Textures = t, !.nextTex = texture,
                           !.issued = @ \cup {<<h, texture>>},
                           !.ret = h]
        ELSE [w EXCEPT !.ret = TextureHandle_Default]

\* GraphicsModule::CreateTexture, part_001:92-120.
CreateTexture(w0, desc, o) ==
    LET w == Count(w0, "CreateTexture")
    IN  IF ~w.m_Initialized
        THEN [w EXCEPT !.ret = TextureHandle_Default]
        ELSE IF w.m_Device # "live"
        THEN [w EXCEPT !.faulted = TRUE, !.ret = TextureHandle_Default]
        ELSE IF o = "ok"
        THEN LET texture == w.nextTex + 1
                 data == [texture |-> texture,
                          width |-> desc.width, height |-> desc.height]
                 t == Append(w.s_Textures, data)
                 h == TextureHandle(Len(t))
             IN  [w EXCEPT !.s_Textures = t, !.nextTex = texture,
                           !.issued = @ \cup {<<h, texture>>},
                           !.ret = h]
        ELSE [w EXCEPT !.ret = TextureHandle_Default]

\* s_Textures with the entry at position i erased (std::vector::erase).
Erase(t, i) == [k \in 1..(Len(t) - 1) |-> IF k < i THEN t[k] ELSE t[k + 1]]

\* GraphicsModule::DestroyTexture (declared part_001:40, body not in the
\* sources).  From spec 3, 4.3 and 7: the table is a flat sequential list, a
\* handle is the 1-based position its entry had when it was created, a zero
\* or unknown handle is a no-op, and destroying an entry removes it from the
\* list.
DestroyTexture(w0, h) ==
    LET w == [w0 EXCEPT !.ret = NoResult]
    IN  IF ~w.m_Initialized \/ ~IsValid(h) \/ h > Len(w.s_Textures)
        THEN w
        ELSE [w EXCEPT !.s_Textures = Erase(@, h),
                       !.issued = {p \in @ : p[1] # h}]

\* Install the module value w as the next state, recording the call.
Apply(w, name) ==
    /\ m_Device' = w.m_Device
    /\ m_Context' = w.m_Context
    /\ m_Initialized' = w.m_Initialized
    /\ s_Textures' = w.s_Textures
    /\ calls' = w.calls
    /\ d3dCalls' = w.d3dCalls
    /\ leaked' = w.leaked
    /\ faulted' = w.faulted
    /\ nextTex' = w.nextTex
    /\ issued' = w.issued
    /\ lastResult' = w.ret
    /\ lastCall' = name
    /\ pre' = Fields(World)

\* A frame-loop method (Clear, DrawText, Update): bodies are not in the
\* sources, only the invocation is recorded.
FrameCall(w, m) == [Count(w, m) EXCEPT !.ret = NoResult]

----------------------------------------------------------------------------
\* State before anything ran.

ModInit ==
    /\ obj = "none"
    /\ m_Device = "null" /\ m_Context = "null" /\ m_Initialized = FALSE
    /\ s_Textures = <<>>
    /\ calls = [m \in Methods |-> 0]
    /\ d3dCalls = 0
    /\ leaked = FALSE /\ faulted = FALSE
    /\ nextTex = 0 /\ issued = {}
    /\ lastCall = "none" /\ lastResult = NoResult
    /\ pre = [m_Device |-> "null", m_Context |-> "null", m_Initialized |-> FALSE,
              s_Textures |-> <<>>, d3dCalls |-> 0, nextTex |-> 0]

\* main(): `Application app;` leaves both members uninitialized.
Init ==
    /\ pc = "start"
    /\ dll \in DllKinds
    /\ graphicsDLL = "unset"
    /\ libHeld = FALSE
    /\ graphics = "unset"
    /\ running = FALSE
    /\ initResult = NoResult
    /\ ModInit

----------------------------------------------------------------------------
\* Application::Run, part_000:11-54.

\* Lines 15-19: LoadLibraryA and the null check.
HostLoadLibrary ==
    /\ pc = "start"
    /\ IF dll = "absent"
       THEN graphicsDLL' = "null" /\ libHeld' = FALSE /\ pc' = "returned"
       ELSE graphicsDLL' = "handle" /\ libHeld' = TRUE /\ pc' = "resolve"
    /\ UNCHANGED <<dll, graphics, running, initResult>>
    /\ UNCHANGED modVars

\* Mutant: the createFunc null check of lines 23-26 is missing.
HostResolveCreate_NoCheck ==
    /\ pc = "resolve"
    /\ pc' = "create"
    /\ UNCHANGED <<dll, graphicsDLL, libHeld, graphics, running, initResult>>
    /\ UNCHANGED modVars

\* Lines 22-26: GetProcAddress("CreateModule") and the null check.
HostResolveCreate ==
    /\ pc = "resolve"
    /\ pc' = IF dll = "no_create" THEN "returned" ELSE "create"
    /\ UNCHANGED <<dll, graphicsDLL, libHeld, graphics, running, initResult>>
    /\ UNCHANGED modVars

\* What createFunc() constructs (part_001:126-128 for the graphics DLL).
Constructed == IF dll \in {"graphics", "graphics_no_destroy"} THEN "alive" ELSE "other"

\* Mutant: the `if (graphics)` test of line 30 is missing.
HostCreate_NoCheck ==
    /\ pc = "create"
    /\ obj' = Constructed
    /\ graphics' = IF Constructed = "alive" THEN "obj" ELSE "null"
    /\ pc' = "init"
    /\ Apply(GraphicsModule_ctor(World), "GraphicsModule")
    /\ UNCHANGED <<dll, graphicsDLL, libHeld, running, initResult>>

\* Lines 29-30: createFunc(), dynamic_cast to IGraphics, `if (graphics)`.
HostCreate ==
    /\ pc = "create"
    /\ obj' = Constructed
    /\ graphics' = IF Constructed = "alive" THEN "obj" ELSE "null"
    /\ pc' = IF Constructed = "alive" THEN "init" ELSE "free"
    /\ Apply(GraphicsModule_ctor(World), "GraphicsModule")
    /\ UNCHANGED <<dll, graphicsDLL, libHeld, running, initResult>>

\* Lines 31-34: graphics->Initialize() (return value discarded), running = true.
HostInitialize ==
    /\ pc = "init"
    /\ \E o \in DeviceOutcomes :
          LET w == IF graphics = "obj" THEN Initialize(World, o)
                   ELSE [Count(World, "Initialize") EXCEPT !.faulted = TRUE]
          IN  /\ Apply(w, "Initialize")
              /\ initResult' = w.ret
    /\ running' = TRUE
    /\ pc' = "loop"
    /\ UNCHANGED <<dll, graphicsDLL, libHeld, graphics, obj>>

\* Line 35: while (running).
HostLoopTest ==
    /\ pc = "loop"
    /\ pc' = IF running THEN "clear" ELSE "shutdown"
    /\ UNCHANGED <<dll, graphicsDLL, libHeld, graphics, running, initResult>>
    /\ UNCHANGED modVars

\* Line 36.
HostClear ==
    /\ pc = "clear"
    /\ Apply(FrameCall(World, "Clear"), "Clear")
    /\ pc' = "draw"
    /\ UNCHANGED <<dll, graphicsDLL, libHeld, graphics, running, initResult, obj>>

\* Line 37.
HostDrawText ==
    /\ pc = "draw"
    /\ Apply(FrameCall(World, "DrawText"), "DrawText")
    /\ pc' = "update"
    /\ UNCHANGED <<dll, graphicsDLL, libHeld, graphics, running, initResult, obj>>

\* Line 38, then back to the loop test.
HostUpdate ==
    /\ pc = "update"
    /\ Apply(FrameCall(World, "Update"), "Update")
    /\ pc' = "loop"
    /\ UNCHANGED <<dll, graphicsDLL, libHeld, graphics, running, initResult, obj>>

\* Line 44: graphics->Shutdown().
HostShutdown ==
    /\ pc = "shutdown"
    /\ Apply(Shutdown(World), "Shutdown")
    /\ pc' = "destroy"
    /\ UNCHANGED <<dll, graphicsDLL, libHeld, graphics, running, initResult, obj>>

\* Lines 47-50: GetProcAddress("DestroyModule"); if found, destroyFunc(graphics).
HostDestroy ==
    /\ pc = "destroy"
    /\ IF dll = "graphics"
       THEN /\ Apply(DestroyModule(World), "~GraphicsModule")
            /\ obj' = "destroyed"
       ELSE UNCHANGED modVars
    /\ pc' = "free"
    /\ UNCHANGED <<dll, graphicsDLL, libHeld, graphics, running, initResult>>

\* Line 53: FreeLibrary(graphicsDLL), then Run returns.
HostFreeLibrary ==
    /\ pc = "free"
    /\ libHeld' = FALSE
    /\ pc' = "returned"
    /\ UNCHANGED <<dll, graphicsDLL, graphics, running, initResult>>
    /\ UNCHANGED modVars

\* The quit condition that the comment on line 41 leaves to the real game
\* (spec 4.1 and 9: a run-state flag cleared by a shutdown request).  It is
\* not part of Run as written; only SpecQuit takes it.
QuitRequested ==
    /\ pc \in {"loop", "clear", "draw", "update"}
    /\ running
    /\ running' = FALSE
    /\ UNCHANGED <<pc, dll, graphicsDLL, libHeld, graphics, initResult>>
    /\ UNCHANGED modVars

Next ==
    \/ HostLoadLibrary
    \/ HostResolveCreate
    \/ HostCreate
    \/ HostInitialize
    \/ HostLoopTest
    \/ HostClear
    \/ HostDrawText
    \/ HostUpdate
    \/ HostFreeLibrary

Spec == Init /\ [][Next]_vars

\* Run is a single sequential thread: whenever a statement is next, it runs.
FairSpec == Init /\ [][Next]_vars /\ WF_vars(Next)

NextQuit ==
    \/ HostLoadLibrary
    \/ HostResolveCreate
    \/ HostCreate
    \/ HostInitialize
    \/ HostLoopTest
    \/ HostClear
    \/ HostDrawText
    \/ HostUpdate
    \/ HostFreeLibrary
    \/ QuitRequested
    \/ HostShutdown
    \/ HostDestroy

SpecQuit == Init /\ [][NextQuit]_vars

----------------------------------------------------------------------------
\* A client of the DLL: it has loaded the library and calls the exported
\* functions and the module's methods in any order, never touching an object
\* it has destroyed.

InitModule ==
    /\ pc = "client"
    /\ dll = "graphics"
    /\ graphicsDLL = "handle"
    /\ libHeld = TRUE
    /\ graphics = "null"
    /\ running = FALSE
    /\ initResult = NoResult
    /\ ModInit

\* CreateModule, part_001:126-128: new GraphicsModule().
ClientCreateModule ==
    /\ pc = "client"
    /\ obj \in {"none", "destroyed"}
    /\ obj' = "alive"
    /\ Apply(GraphicsModule_ctor(World), "GraphicsModule")
    /\ UNCHANGED hostVars

ClientInitialize ==
    /\ pc = "client"
    /\ obj = "alive"
    /\ \E o \in DeviceOutcomes : Apply(Initialize(World, o), "Initialize")
    /\ UNCHANGED <<obj>>
    /\ UNCHANGED hostVars

ClientShutdown ==
    /\ pc = "client"
    /\ obj = "alive"
    /\ Apply(Shutdown(World), "Shutdown")
    /\ UNCHANGED <<obj>>
    /\ UNCHANGED hostVars

ClientCreateTexture ==
    /\ pc = "client"
    /\ obj = "alive"
    /\ Len(s_Textures) < MaxTextures
    /\ nextTex < MaxCreated
    /\ \E wd \in TexSizes, o \in TextureOutcomes :
          Apply(CreateTexture(World, [width |-> wd, height |-> wd], o), "CreateTexture")
    /\ UNCHANGED <<obj>>
    /\ UNCHANGED hostVars

\* Any handle value a client can hold, the invalid one included.
ClientDestroyTexture ==
    /\ pc = "client"
    /\ obj = "alive"
    /\ \E h \in 0..MaxTextures : Apply(DestroyTexture(World, h), "DestroyTexture")
    /\ UNCHANGED <<obj>>
    /\ UNCHANGED hostVars

ClientDestroyModule ==
    /\ pc = "client"
    /\ obj = "alive"
    /\ Apply(DestroyModule(World), "~GraphicsModule")
    /\ obj' = "destroyed"
    /\ UNCHANGED hostVars

NextModule ==
    \/ ClientCreateModule
    \/ ClientInitialize
    \/ ClientShutdown
    \/ ClientCreateTexture
    \/ ClientDestroyTexture
    \/ ClientDestroyModule

SpecModule == InitModule /\ [][NextModule]_vars

----------------------------------------------------------------------------
TypeOK ==
    /\ pc \in {"start", "resolve", "create", "init", "loop", "clear", "draw",
               "update", "shutdown", "destroy", "free", "returned", "client"}
    /\ dll \in DllKinds
    /\ graphicsDLL \in {"unset", "null", "handle"}
    /\ libHeld \in BOOLEAN
    /\ graphics \in {"unset", "null", "obj"}
    /\ obj \in {"none", "other", "alive", "destroyed"}
    /\ m_Device \in {"null", "live"} /\ m_Context \in {"null", "live"}
    /\ m_Initialized \in BOOLEAN
    /\ Len(s_Textures) <= MaxTextures + 1
    /\ nextTex \in 0..(MaxCreated + 1)
    /\ issued \subseteq ((0..(MaxTextures + 1)) \X (1..(MaxCreated + 1)))
    /\ \A m \in Methods : calls[m] \in 0..(MaxCount + 1)

----------------------------------------------------------------------------
\* Shorthands used by the properties.

FrameCalls == calls["Clear"] + calls["DrawText"] + calls["Update"]
NoMethodCalled == \A m \in Methods : calls[m] = 0

C2_HandleReleasedOnReturn ==
    pc = "returned" => ~libHeld

\* C3: when the library is absent or lacks CreateModule, no module object is
\* ever constructed, no module method is ever called and the host holds no
\* pointer to a module, up to and including the return of Run.
C3_NoModuleOnLoadFailure ==
    dll \in {"absent", "no_create"} =>
        /\ obj = "none"
        /\ NoMethodCalled
        /\ lastCall = "none"
        /\ graphics # "obj"
        /\ pc \in {"start", "resolve", "returned"}

C3_Witness ==
    /\ pc = "returned"
    /\ dll = "no_create"
    /\ graphicsDLL = "handle"
    /\ obj = "none"

\* C4: when the object CreateModule returned is not a Graphics module, the
\* downcast is null, no module method is ever called on it and the host goes
\* straight to FreeLibrary and returns.
C4_TypeMismatchAborts ==
    obj = "other" =>
        /\ graphics = "null"
        /\ NoMethodCalled
        /\ pc \in {"free", "returned"}
        /\ (pc = "returned" => ~libHeld)

C4_Witness ==
    /\ obj = "other"
    /\ graphics = "null"
    /\ pc = "returned"
    /\ ~libHeld

\* C5: when the host's Initialize call returned anything but Success, no
\* Clear, DrawText or Update is ever called on the module.
C5_NoFrameAfterFailedInit ==
    (initResult # NoResult /\ initResult # Result_Success) => FrameCalls = 0

\* C6: after a successful load (Initialize returned Success) Run eventually
\* returns.
C6_RunEventuallyReturns ==
    (graphics = "obj" /\ initResult = Result_Success) ~> (pc = "returned")

\* C7: IsInitialized is false from construction until an Initialize call
\* returns Success, true right after that call, unchanged by CreateTexture,
\* and false again after Shutdown, when the device, the context and every
\* texture have been released.
C7_InitializedLifecycle ==
    /\ lastCall = "GraphicsModule" => ~m_Initialized
    /\ (lastCall = "Initialize" /\ lastResult = Result_Success) => m_Initialized
    /\ (lastCall = "Initialize" /\ lastResult # Result_Success)
          => m_Initialized = pre.m_Initialized
    /\ lastCall = "CreateTexture" => m_Initialized = pre.m_Initialized
    /\ lastCall = "Shutdown"
          => /\ ~m_Initialized
             /\ m_Device = "null" /\ m_Context = "null"
             /\ s_Textures = <<>>

\* C8: Initialize on a module whose IsInitialized is true returns
\* AlreadyInitialized, attempts no device creation and leaves the device,
\* the context, the flag and the texture table as they were.
C8_AlreadyInitialized ==
    (lastCall = "Initialize" /\ pre.m_Initialized) =>
        /\ lastResult = Result_AlreadyInitialized
        /\ Fields(World) = pre

C8_Witness ==
    /\ lastCall = "Initialize"
    /\ pre.m_Initialized
    /\ lastResult = Result_AlreadyInitialized
    /\ Len(s_Textures) > 0

\* C9: when native device creation fails, Initialize returns Failure, the
\* module stays uninitialized and the device and context pointers are null.
C9_FailureLeavesNothing ==
    (lastCall = "Initialize" /\ ~pre.m_Initialized /\ lastResult # Result_Success) =>
        /\ lastResult = Result_Failure
        /\ ~m_Initialized
        /\ m_Device = "null" /\ m_Context = "null"

C11_CreateTextureUninitialized ==
    (lastCall = "CreateTexture" /\ ~pre.m_Initialized) =>
        /\ lastResult = 0
        /\ ~IsValid(lastResult)
        /\ Fields(World) = pre
        /\ ~faulted

C11_Witness ==
    /\ lastCall = "CreateTexture"
    /\ ~pre.m_Initialized
    /\ lastResult = 0
    /\ d3dCalls >= 1
    /\ m_Device = "live"

\* A CreateTexture call on an initialized module created a native texture.
NativeTextureCreated ==
    lastCall = "CreateTexture" /\ pre.m_Initialized /\ nextTex # pre.nextTex

\* C12: the default handle is invalid; a CreateTexture call whose native
\* creation succeeded returns a valid (nonzero) handle and appends one table
\* entry; one whose native creation failed returns the invalid handle and
\* leaves the table as it was.
C12_HandleValidity ==
    /\ ~IsValid(TextureHandle_Default)
    /\ (lastCall = "CreateTexture" /\ pre.m_Initialized) =>
          IF nextTex # pre.nextTex
          THEN /\ IsValid(lastResult)
               /\ Len(s_Textures) = Len(pre.s_Textures) + 1
          ELSE /\ ~IsValid(lastResult)
               /\ s_Textures = pre.s_Textures

C12_Witness ==
    /\ NativeTextureCreated
    /\ IsValid(lastResult)
    /\ Len(s_Textures) = 2

\* C13: every handle returned and not yet destroyed still denotes the
\* texture it was returned for, and no two live handles are equal.
C13_HandlesStableUnique ==
    /\ \A p \in issued :
          /\ p[1] \in 1..Len(s_Textures)
          /\ s_Textures[p[1]].texture = p[2]
    /\ \A p, q \in issued : p[1] = q[1] => p = q

====
